---- MODULE Spec2Model ----
(***************************************************************************)
(* Model of package logh: the fixed-capacity StringWriter                  *)
(* (string_buffer.go) and the ContextualLogger (logh.go).                  *)
(***************************************************************************)
EXTENDS Integers, Sequences, FiniteSets, TLC

VARIABLES sb, swret, written,
          loggers, mem, hist, globalLevel, enabled, out, ret

swvars == <<sb, swret, written>>
ctxvars == <<loggers, mem, hist>>
logvars == <<globalLevel, enabled, out>>
vars == <<sb, swret, written, loggers, mem, hist, globalLevel, enabled, out, ret>>

Nil == "nil"

Min(a, b) == IF a < b THEN a ELSE b

(***************************************************************************)
(* string_buffer.go                                                        *)
(***************************************************************************)

\* Bounds of the StringWriter exploration.
MaxSize == 3
MaxPayload == 3
MaxWritten == 5

\* io.EOF
EOF == "EOF"

\* Byte values that callers write; 0 is the zero byte make() fills in.
ByteVals == {1, 2}

RECURSIVE SeqsUpTo(_, _)
SeqsUpTo(S, n) ==
    IF n = 0 THEN {<<>>}
    ELSE LET shorter == SeqsUpTo(S, n - 1)
         IN  shorter \cup {Append(s, x) : s \in {t \in shorter : Len(t) = n - 1}, x \in S}

Payloads == SeqsUpTo(ByteVals, MaxPayload)

NewStringWriter(size) ==
    [buffer |-> [i \in 1..size |-> 0], index |-> 0, size |-> size]

\* Mutation: the capacity test fires one byte early.
AtCapacityEarly(s) == s.index + 1 >= s.size

\* if sb.index >= sb.size
AtCapacity(s) == s.index >= s.size

\* Mutation: the cursor wraps round like a ring buffer.
StoreByteWrap(s, b) ==
    [s EXCEPT !.buffer[s.index + 1] = b, !.index = (s.index + 1) % s.size]

\* sb.buffer[sb.index] = p[i]; sb.index++
StoreByte(s, b) ==
    [s EXCEPT !.buffer[s.index + 1] = b, !.index = s.index + 1]

\* The loop of Write from p[i] on, n bytes stored so far in this call.
RECURSIVE WriteLoop(_, _, _, _)
WriteLoop(s, p, i, n) ==
    IF i >= Len(p) THEN [sb |-> s, n |-> n, err |-> Nil]
    ELSE IF AtCapacity(s) THEN [sb |-> s, n |-> n, err |-> EOF]
    ELSE WriteLoop(StoreByte(s, p[i + 1]), p, i + 1, n + 1)

\* sb.index = 0 (the bytes stay in the buffer)
ResetWriter(s) == [s EXCEPT !.index = 0]

\* Mutation: Bytes hands out the whole buffer.
BytesWhole(s) == s.buffer

\* sb.buffer[0:sb.index]
Bytes(s) == SubSeq(s.buffer, 1, s.index)

InitSW ==
    /\ \E size \in 0..MaxSize : sb = NewStringWriter(size)
    /\ swret = [op |-> "New"]
    /\ written = <<>>

Write ==
    \E p \in Payloads :
        /\ Len(written) + Len(p) <= MaxWritten
        /\ LET r == WriteLoop(sb, p, 0, 0)
           IN  /\ sb' = r.sb
               /\ swret' = [op |-> "Write", p |-> p, old |-> sb.index,
                            n |-> r.n, err |-> r.err]
        /\ written' = written \o p
        /\ UNCHANGED <<ctxvars, logvars, ret>>

Reset ==
    /\ sb' = ResetWriter(sb)
    /\ swret' = [op |-> "Reset", old |-> sb.index]
    /\ written' = <<>>
    /\ UNCHANGED <<ctxvars, logvars, ret>>

ReadBytes ==
    /\ swret' = [op |-> "Bytes", bytes |-> Bytes(sb)]
    /\ UNCHANGED <<sb, written, ctxvars, logvars, ret>>

(***************************************************************************)
(* logh.go: key/value storage of the ContextualLogger                      *)
(***************************************************************************)

\* Bounds of the context exploration.
MaxLoggers == 2
MaxPairs == 3

\* ErrWrongNumberOfArgs
ErrWrongNumberOfArgs == "the number of arguments must be even"

\* Keys used as arguments, with their bytes (Go compares strings bytewise).
Keys == {"a", "b", "cc"}
KeyBytes(k) == CASE k = "a" -> <<97>>
                 [] k = "b" -> <<98>>
                 [] k = "cc" -> <<99, 99>>
                 [] OTHER -> <<>>

\* Values passed as interface{}: a dynamic type and a payload; the nil
\* interface has no dynamic type.
NilValue == [type |-> Nil, v |-> "nil"]
GoValue(t, v) == [type |-> t, v |-> v]

\* reflect.ValueOf(value).Kind()
KindOf(value) ==
    CASE value.type = Nil -> "Invalid"
      [] value.type = "string" -> "String"
      [] value.type = "int" -> "Int"
      [] value.type = "int8" -> "Int8"
      [] value.type = "int16" -> "Int16"
      [] value.type = "int32" -> "Int32"
      [] value.type = "int64" -> "Int64"
      [] value.type = "uint" -> "Uint"
      [] value.type = "uint8" -> "Uint8"
      [] value.type = "uint16" -> "Uint16"
      [] value.type = "uint32" -> "Uint32"
      [] value.type = "uint64" -> "Uint64"
      [] value.type = "float32" -> "Float32"
      [] value.type = "float64" -> "Float64"
      [] value.type = "bool" -> "Bool"
      [] OTHER -> "Struct"

\* newItem: the pair with its reflect.Value and kind
newItem(key, value) ==
    [key |-> key, value |-> value,
     rvalue |-> [valid |-> value.type # Nil, v |-> value.v],
     kind |-> KindOf(value)]

\* The zero keyValue that fills unused capacity.
ZeroKV == [key |-> "", value |-> NilValue,
           rvalue |-> [valid |-> FALSE, v |-> "nil"], kind |-> "Invalid"]

\* toKeyValueArray: items[j] = newItem(keyValues[2j], keyValues[2j+1])
toKeyValueArray(keyValues) ==
    [j \in 1..(Len(keyValues) \div 2) |->
        newItem(keyValues[2 * j - 1], keyValues[2 * j])]

\* a < b on strings: bytewise lexicographic order
RECURSIVE BytesLess(_, _)
BytesLess(x, y) ==
    IF y = <<>> THEN FALSE
    ELSE IF x = <<>> THEN TRUE
    ELSE IF Head(x) # Head(y) THEN Head(x) < Head(y)
    ELSE BytesLess(Tail(x), Tail(y))

\* byKey.Less
Less(s, i, j) ==
    /\ Len(KeyBytes(s[i].key)) = Len(KeyBytes(s[j].key))
    /\ BytesLess(KeyBytes(s[i].key), KeyBytes(s[j].key))

\* byKey.Swap
Swap(s, i, j) == [s EXCEPT ![i] = s[j], ![j] = s[i]]

\* sort.Sort on the short slices explored here (fewer than seven elements)
\* is the insertion sort of package sort:
\* for j := i; j > a && data.Less(j, j-1); j-- { data.Swap(j, j-1) }
RECURSIVE SinkDown(_, _)
SinkDown(s, j) ==
    IF j > 1 /\ Less(s, j, j - 1) THEN SinkDown(Swap(s, j, j - 1), j - 1) ELSE s

RECURSIVE InsertionSortFrom(_, _)
InsertionSortFrom(s, i) ==
    IF i > Len(s) THEN s ELSE InsertionSortFrom(SinkDown(s, i), i + 1)

SortByKey(s) == InsertionSortFrom(s, 2)

(***************************************************************************)
(* Slices: a header (array, len, cap) over an array of the heap.           *)
(***************************************************************************)

ArrIds == 1..(MaxLoggers + 2)
FreeArr == [live |-> FALSE, data |-> <<>>]
NilSlice == [arr |-> 0, len |-> 0, cap |-> 0]

\* make([]keyValue, n) initialised with data: the first free array
Alloc(m, data) ==
    LET id == CHOOSE a \in ArrIds :
                  /\ ~m[a].live
                  /\ \A b \in ArrIds : ~m[b].live => a <= b
    IN  [mem |-> [m EXCEPT ![id] = [live |-> TRUE, data |-> data]],
         hdr |-> [arr |-> id, len |-> Len(data), cap |-> Len(data)]]

\* The elements s[0:len] of a slice
Elems(m, h) == IF h.arr = 0 THEN <<>> ELSE SubSeq(m[h.arr].data, 1, h.len)

\* Stores elements into s[0:len]
SetElems(m, h, s) ==
    [m EXCEPT ![h.arr].data =
        [i \in 1..Len(@) |-> IF i <= Len(s) THEN s[i] ELSE @[i]]]

\* Capacity chosen by append when the array is full (runtime growslice; a
\* keyValue is 64 bytes, so no size class rounding below 13 elements).
GrowCap(oldCap, newLen) ==
    IF newLen > 2 * oldCap THEN newLen ELSE 2 * oldCap

\* append(s, items...)
AppendSlice(m, h, items) ==
    LET newLen == h.len + Len(items) IN
    IF newLen <= h.cap
    THEN LET hh == [h EXCEPT !.len = newLen]
         IN  [mem |-> SetElems(m, hh, Elems(m, h) \o items), hdr |-> hh]
    ELSE LET c == GrowCap(h.cap, newLen)
             a == Alloc(m, Elems(m, h) \o items
                           \o [i \in 1..(c - newLen) |-> ZeroKV])
         IN  [mem |-> a.mem, hdr |-> [a.hdr EXCEPT !.len = newLen]]

\* sort.Sort(byKey(s)): in place
SortSlice(m, h) == SetElems(m, h, SortByKey(Elems(m, h)))

\* Which array a slice lies in is not observable, only whether two slices
\* share one.  After a call the arrays are renamed: the array of logger i
\* is named after the first logger that refers to it, and the arrays no
\* logger refers to are free again (garbage collection).
Owner(ls, i) ==
    CHOOSE j \in 1..i :
        /\ ls[j].keyValues.arr = ls[i].keyValues.arr
        /\ \A k \in 1..(j - 1) : ls[k].keyValues.arr # ls[i].keyValues.arr

CollectLoggers(ls) ==
    [i \in 1..Len(ls) |-> [ls[i] EXCEPT !.keyValues.arr = Owner(ls, i)]]

Collect(m, ls) ==
    [a \in ArrIds |->
        IF a <= Len(ls) /\ Owner(ls, a) = a THEN m[ls[a].keyValues.arr] ELSE FreeArr]

\* numKeyValues%2 != 0
OddCount(keyValues) == Len(keyValues) % 2 # 0

\* CreateContextualLogger
CreateContextualLogger(m, keyValues) ==
    IF OddCount(keyValues)
    THEN [panic |-> ErrWrongNumberOfArgs, mem |-> m, cl |-> [keyValues |-> NilSlice]]
    ELSE LET a == Alloc(m, toKeyValueArray(keyValues))
         IN  [panic |-> Nil, mem |-> SortSlice(a.mem, a.hdr),
              cl |-> [keyValues |-> a.hdr]]

\* ContextualLogger.Append
AppendCtx(m, cl, keyValues) ==
    IF OddCount(keyValues)
    THEN [err |-> ErrWrongNumberOfArgs, mem |-> m, cl |-> cl]
    ELSE LET a == AppendSlice(m, cl.keyValues, toKeyValueArray(keyValues))
         IN  [err |-> Nil, mem |-> SortSlice(a.mem, a.hdr),
              cl |-> [keyValues |-> a.hdr]]

\* ContextualLogger.GetContexts: a fresh []interface{} of key, value, ...
GetContexts(m, cl) ==
    LET s == Elems(m, cl.keyValues)
    IN  [i \in 1..(2 * Len(s)) |->
            IF i % 2 = 1 THEN s[(i + 1) \div 2].key ELSE s[i \div 2].value]

\* Mutation: the extra pairs are appended to the receiver itself, which
\* is handed back as the derived logger.
CreateFromContextOnReceiver(m, cl, keyValues) ==
    LET a == AppendCtx(m, cl, keyValues)
    IN  IF a.err # Nil
        THEN [err |-> a.err, mem |-> m, recv |-> cl, cl |-> [keyValues |-> NilSlice]]
        ELSE [err |-> Nil, mem |-> a.mem, recv |-> a.cl, cl |-> a.cl]

\* ContextualLogger.CreateFromContext: recv is the receiver after the call,
\* cl the logger returned.
CreateFromContext(m, cl, keyValues) ==
    LET c == CreateContextualLogger(m, GetContexts(m, cl))
        a == AppendCtx(c.mem, c.cl, keyValues)
    IN  IF a.err # Nil
        THEN [err |-> a.err, mem |-> m, recv |-> cl, cl |-> [keyValues |-> NilSlice]]
        ELSE [err |-> Nil, mem |-> a.mem, recv |-> cl, cl |-> a.cl]

\* Mutation: the must-forms swallow the error.
MustIgnore(err) == "ok"

\* if err != nil { panic(err) }
Must(err) == IF err # Nil THEN "panic" ELSE "ok"

(***************************************************************************)
(* Calls on contextual loggers.  ret describes the last call and what it   *)
(* returned; hist remembers, for every logger, the logger it was derived   *)
(* from (0 for none) and the arguments stored into it, in call order.      *)
(***************************************************************************)

VInt == GoValue("int", "1")
VStr == GoValue("string", "s")
VStruct == GoValue("struct", "{}")

RECURSIVE Flatten(_)
Flatten(ps) == IF ps = <<>> THEN <<>> ELSE Head(ps) \o Flatten(Tail(ps))

\* Argument lists of the context exploration: even ones, in and out of
\* key order, and odd ones.
CtxArgs ==
    {<<>>, <<"b", VStr>>, <<"a", VInt>>, <<"b", VStr, "a", VInt>>,
     <<"a">>, <<"b", VStr, "a">>}

\* Number of pairs stored over all loggers.
RECURSIVE NumPairs(_)
NumPairs(ls) ==
    IF ls = <<>> THEN 0 ELSE Head(ls).keyValues.len + NumPairs(Tail(ls))

InitCtx ==
    /\ loggers = <<>>
    /\ mem = [a \in ArrIds |-> FreeArr]
    /\ hist = <<>>

Failed(op, i, kvs, outcome, err) ==
    [op |-> op, cl |-> i, nargs |-> Len(kvs), outcome |-> outcome, err |-> err]

\* The exploration stops where a stored list would pass the bounds.
Fits(newLoggers, newPairs, kvs) ==
    \/ OddCount(kvs)
    \/ /\ Len(loggers) + newLoggers <= MaxLoggers
       /\ NumPairs(loggers) + newPairs + Len(kvs) \div 2 <= MaxPairs

CallCreate(Args) ==
    /\ UNCHANGED <<swvars, logvars>>
    /\ \E kvs \in Args :
        /\ Fits(1, 0, kvs)
        /\ \E c \in {CreateContextualLogger(mem, kvs)} :
            IF c.panic # Nil
            THEN /\ ret' = Failed("Create", 0, kvs, "panic", c.panic)
                 /\ UNCHANGED ctxvars
            ELSE \E ls \in {Append(loggers, c.cl)} :
                 /\ loggers' = CollectLoggers(ls)
                 /\ mem' = Collect(c.mem, ls)
                 /\ hist' = Append(hist, [parent |-> 0, inserted |-> kvs])
                 /\ ret' = [op |-> "Create", cl |-> Len(ls), nargs |-> Len(kvs),
                            outcome |-> "ok", err |-> Nil]

\* Append, and MustAppend when must is TRUE.
AppendBody(op, must, Args) ==
    /\ UNCHANGED <<swvars, logvars>>
    /\ \E i \in 1..Len(loggers), kvs \in Args :
        /\ Fits(0, 0, kvs)
        /\ \E a \in {AppendCtx(mem, loggers[i], kvs)} :
            IF a.err # Nil
            THEN /\ ret' = Failed(op, i, kvs, IF must THEN Must(a.err) ELSE "error", a.err)
                 /\ UNCHANGED ctxvars
            ELSE \E ls \in {[loggers EXCEPT ![i] = a.cl]} :
                 /\ loggers' = CollectLoggers(ls)
                 /\ mem' = Collect(a.mem, ls)
                 /\ hist' = [hist EXCEPT ![i].inserted = @ \o kvs]
                 /\ ret' = [op |-> op, cl |-> i, nargs |-> Len(kvs),
                            outcome |-> IF must THEN Must(a.err) ELSE "ok",
                            err |-> Nil]

CallAppend(Args) == AppendBody("Append", FALSE, Args)

CallMustAppend(Args) == AppendBody("MustAppend", TRUE, Args)

\* CreateFromContext, and MustCreateFromContext when must is TRUE.
DeriveBody(op, must, Args) ==
    /\ UNCHANGED <<swvars, logvars>>
    /\ \E i \in 1..Len(loggers), kvs \in Args :
        /\ Fits(1, loggers[i].keyValues.len, kvs)
        /\ \E d \in {CreateFromContext(mem, loggers[i], kvs)} :
            IF d.err # Nil
            THEN \E ls \in {[loggers EXCEPT ![i] = d.recv]} :
                 /\ ret' = Failed(op, i, kvs, IF must THEN Must(d.err) ELSE "error", d.err)
                 /\ loggers' = CollectLoggers(ls)
                 /\ mem' = Collect(d.mem, ls)
                 /\ UNCHANGED hist
            ELSE \E ls \in {Append([loggers EXCEPT ![i] = d.recv], d.cl)} :
                 /\ loggers' = CollectLoggers(ls)
                 /\ mem' = Collect(d.mem, ls)
                 /\ hist' = Append(hist, [parent |-> i, inserted |-> kvs])
                 /\ ret' = [op |-> op, cl |-> i, nargs |-> Len(kvs),
                            outcome |-> IF must THEN Must(d.err) ELSE "ok",
                            err |-> Nil, args |-> kvs, child |-> Len(ls)]

CallCreateFromContext(Args) == DeriveBody("CreateFromContext", FALSE, Args)

CallMustCreateFromContext(Args) == DeriveBody("MustCreateFromContext", TRUE, Args)

CallGetContexts ==
    /\ UNCHANGED <<swvars, logvars>>
    /\ \E i \in 1..Len(loggers) :
        /\ ret' = [op |-> "GetContexts", cl |-> i, nargs |-> 0,
                   outcome |-> "ok", err |-> Nil,
                   result |-> GetContexts(mem, loggers[i])]
        /\ UNCHANGED ctxvars

(***************************************************************************)
(* logh.go: the global logger, level gating and events                     *)
(***************************************************************************)

\* Bounds of the event exploration.
LogMaxPairs == 2
MaxOut == 1
MaxSkip == 3

\* zerolog's levels, in its numbering.
LevelNames == {"debug", "info", "warn", "error", "fatal", "panic"}
LevelNum(l) == CASE l = "debug" -> 0
                 [] l = "info" -> 1
                 [] l = "warn" -> 2
                 [] l = "error" -> 3
                 [] l = "fatal" -> 4
                 [] l = "panic" -> 5

\* The switch of ConfigureCustomLogger: the global level after configuring
\* with lvl when it was g; an unknown lvl leaves it alone.
ConfigLevel(lvl, g) ==
    CASE lvl = "info" -> 1
      [] lvl = "debug" -> 0
      [] lvl = "warn" -> 2
      [] lvl = "error" -> 3
      [] lvl = "panic" -> 5
      [] lvl = "fatal" -> 4
      [] lvl = "none" -> 6
      [] lvl = "silent" -> 7
      [] OTHER -> g

\* Levels a caller may configure: the eight of the package and another one.
LevelInputs == {"info", "debug", "warn", "error", "fatal", "panic", "none",
                "silent", "verbose"}

\* Mutation: the global level is not consulted.
EnabledAlways(lvl, g) == TRUE

\* e.Enabled() of the event logger.X() hands out: the level is not below
\* the global one.
Enabled(lvl, g) == lvl >= g

\* An event under construction; the nil event is what a disabled level
\* gives.  fields are the setter calls made on it, in order.
NilEvent == [nil |-> TRUE, level |-> "", fields |-> <<>>]
NewEvent(l) == [nil |-> FALSE, level |-> l, fields |-> <<>>]

\* Info(), Debug(), Warn(), Error(), Panic(), Fatal()
LevelEvent(l, g) == IF Enabled(LevelNum(l), g) THEN NewEvent(l) ELSE NilEvent

\* A typed setter of the event (Str, Int, ..., Interface); on the nil
\* event every setter returns nil.
Field(ev, setter, key, val) ==
    IF ev.nil THEN ev
    ELSE [ev EXCEPT !.fields = Append(@, [setter |-> setter, key |-> key, val |-> val])]

\* The switch of addContext on the kind of the pair.
SetterFor(kind) ==
    CASE kind = "String" -> "Str"
      [] kind = "Int" -> "Int"
      [] kind = "Int8" -> "Int8"
      [] kind = "Int16" -> "Int16"
      [] kind = "Int32" -> "Int32"
      [] kind = "Int64" -> "Int64"
      [] kind = "Uint" -> "Uint"
      [] kind = "Uint8" -> "Uint8"
      [] kind = "Uint16" -> "Uint16"
      [] kind = "Uint32" -> "Uint32"
      [] kind = "Uint64" -> "Uint64"
      [] kind = "Float32" -> "Float32"
      [] kind = "Float64" -> "Float64"
      [] kind = "Bool" -> "Bool"
      [] OTHER -> "Interface"

\* reflect.Value.Interface panics on the zero Value.
ErrZeroValue == "reflect: call of reflect.Value.Interface on zero Value"

\* The loop of addContext from pair j on.
RECURSIVE AddContextFrom(_, _, _)
AddContextFrom(ev, kvs, j) ==
    IF j > Len(kvs) THEN [panic |-> Nil, event |-> ev]
    ELSE LET kv == kvs[j]
             setter == SetterFor(kv.kind)
         IN  IF setter = "Interface" /\ ~kv.rvalue.valid
             THEN [panic |-> ErrZeroValue, event |-> ev]
             ELSE AddContextFrom(Field(ev, setter, kv.key, kv.rvalue.v), kvs, j + 1)

\* ContextualLogger.addContext
addContext(ev, kvs) ==
    IF ev.nil THEN [panic |-> Nil, event |-> NilEvent]
    ELSE AddContextFrom(ev, kvs, 1)

\* runtime.Caller(skip) on a stack given innermost frame first.
RuntimeCaller(stack, skip) ==
    IF skip < Len(stack)
    THEN [ok |-> TRUE, file |-> stack[skip + 1].file, line |-> stack[skip + 1].line]
    ELSE [ok |-> FALSE, file |-> "", line |-> "0"]

\* ContextualLogger.ErrorLineC, called with the callers' frames.
ErrorLineC(callers, skippedStackFrames, g, kvs) ==
    LET c == RuntimeCaller(<<[file |-> "logh.go", line |-> "163"]>> \o callers,
                           skippedStackFrames)
        ev == LevelEvent("error", g)
        filename == IF ~c.ok THEN "unknown" ELSE c.file
        line == IF ~c.ok THEN "-1" ELSE c.line
        ev1 == Field(ev, "Str", "@file", filename)
        ev2 == IF c.ok THEN Field(ev1, "Int", "@line", line) ELSE ev1
    IN  addContext(ev2, kvs)

\* ContextualLogger.ErrorLine
ErrorLine(callers, g, kvs) ==
    ErrorLineC(<<[file |-> "logh.go", line |-> "157"]>> \o callers, 2, g, kvs)

\* InfoEnabled, DebugEnabled, ... as ConfigureCustomLogger sets them.
EnabledFlags(g) == [l \in LevelNames |-> ~LevelEvent(l, g).nil]

\* The state of the global logger while only contexts are explored.
LogIdle ==
    /\ globalLevel = ConfigLevel("info", 0)
    /\ enabled = EnabledFlags(globalLevel)
    /\ out = <<>>

SWIdle ==
    /\ sb = NewStringWriter(0)
    /\ swret = [op |-> "New"]
    /\ written = <<>>

CtxIdle ==
    /\ loggers = <<>>
    /\ mem = [a \in ArrIds |-> FreeArr]
    /\ hist = <<>>
    /\ ret = [op |-> "none"]

InitC == InitCtx /\ ret = [op |-> "none"] /\ LogIdle /\ SWIdle

CreateCtx == CallCreate(CtxArgs)
AppendToCtx == CallAppend(CtxArgs)
MustAppendToCtx == CallMustAppend(CtxArgs)
DeriveCtx == CallCreateFromContext(CtxArgs)
MustDeriveCtx == CallMustCreateFromContext(CtxArgs)

NextC ==
    \/ CreateCtx
    \/ AppendToCtx
    \/ MustAppendToCtx
    \/ DeriveCtx
    \/ MustDeriveCtx
    \/ CallGetContexts

SpecCtx == InitC /\ [][NextC]_vars

InitW == InitSW /\ CtxIdle /\ LogIdle

NextW ==
    \/ Write
    \/ Reset
    \/ ReadBytes

SpecSW == InitW /\ [][NextW]_vars

(***************************************************************************)
(* Logging calls on one contextual logger (SpecLog).  out is what the      *)
(* configured writer has received: the events emitted, in order.           *)
(***************************************************************************)

\* Argument lists the logger under test is created from.
LogPairs == {<<"b", VStr>>, <<"a", VInt>>, <<"cc", NilValue>>, <<"a", VStruct>>}
LogArgs == {Flatten(ps) : ps \in SeqsUpTo(LogPairs, LogMaxPairs)}

\* Stacks of the code that calls the logger, innermost frame first.
UserStacks ==
    {<<[file |-> "main.go", line |-> "10"]>>,
     <<[file |-> "main.go", line |-> "10"], [file |-> "proc.go", line |-> "250"]>>}

AccessorLevel(op) ==
    CASE op = "Info" -> "info"
      [] op = "Debug" -> "debug"
      [] op = "Warn" -> "warn"
      [] op = "Fatal" -> "fatal"
      [] op = "Panic" -> "panic"
      [] OTHER -> "error"

AccessorOps == {"Info", "Debug", "Warn", "Error", "Fatal", "Panic",
                "ErrorLine", "ErrorLineC"}

Running == ret.outcome # "exit"

InitL ==
    /\ \E kvs \in LogArgs :
          LET c == CreateContextualLogger([a \in ArrIds |-> FreeArr], kvs) IN
          /\ loggers = <<c.cl>>
          /\ mem = c.mem
          /\ hist = <<[parent |-> 0, inserted |-> kvs]>>
          /\ ret = [op |-> "Create", cl |-> 1, nargs |-> Len(kvs),
                    outcome |-> "ok", err |-> Nil]
    /\ \E lvl \in LevelInputs :
          /\ globalLevel = ConfigLevel(lvl, 0)
          /\ enabled = EnabledFlags(globalLevel)
    /\ out = <<>>

\* ConfigureCustomLogger(lvl, fmt, w); the writer w is a new one or the
\* one in use.
Configure ==
    \E lvl \in LevelInputs, fresh \in BOOLEAN :
        /\ Running
        /\ globalLevel' = ConfigLevel(lvl, globalLevel)
        /\ enabled' = EnabledFlags(globalLevel')
        /\ out' = IF fresh THEN <<>> ELSE out
        /\ ret' = [op |-> "Configure", outcome |-> "ok"]
        /\ UNCHANGED <<ctxvars, swvars>>

Returned(op, r) ==
    [op |-> op, cl |-> 1, outcome |-> IF r.panic # Nil THEN "panic" ELSE "ok",
     panic |-> r.panic, event |-> r.event]

\* cl.Info(), cl.Debug(), cl.Warn(), cl.Error(), cl.Fatal(), cl.Panic()
Accessor(op) ==
    /\ Running
    /\ \E r \in {addContext(LevelEvent(AccessorLevel(op), globalLevel),
                            Elems(mem, loggers[1].keyValues))} :
          ret' = Returned(op, r)
    /\ UNCHANGED <<ctxvars, logvars, swvars>>

CallInfo == Accessor("Info")
CallDebug == Accessor("Debug")
CallWarn == Accessor("Warn")
CallError == Accessor("Error")
CallFatal == Accessor("Fatal")
CallPanic == Accessor("Panic")

CallErrorLine ==
    \E callers \in UserStacks :
        /\ Running
        /\ \E r \in {ErrorLine(callers, globalLevel, Elems(mem, loggers[1].keyValues))} :
              ret' = Returned("ErrorLine", r)
                     @@ [callers |-> callers, skip |-> 2, direct |-> FALSE]
        /\ UNCHANGED <<ctxvars, logvars, swvars>>

CallErrorLineC ==
    \E callers \in UserStacks, skip \in 0..MaxSkip :
        /\ Running
        /\ \E r \in {ErrorLineC(callers, skip, globalLevel,
                                Elems(mem, loggers[1].keyValues))} :
              ret' = Returned("ErrorLineC", r)
                     @@ [callers |-> callers, skip |-> skip, direct |-> TRUE]
        /\ UNCHANGED <<ctxvars, logvars, swvars>>

\* event.Msg(...) on the event the last accessor returned: the event is
\* written out; a fatal event then exits, a panic event then panics.
CallMsg ==
    /\ Running
    /\ ret.op \in AccessorOps
    /\ ret.outcome = "ok"
    /\ IF ret.event.nil
       THEN /\ out' = out
            /\ ret' = [op |-> "Msg", outcome |-> "ok"]
       ELSE /\ Len(out) < MaxOut
            /\ out' = Append(out, ret.event)
            /\ ret' = [op |-> "Msg",
                       outcome |-> CASE ret.event.level = "fatal" -> "exit"
                                     [] ret.event.level = "panic" -> "panic"
                                     [] OTHER -> "ok"]
    /\ UNCHANGED <<ctxvars, globalLevel, enabled, swvars>>

NextL ==
    \/ Configure
    \/ CallInfo
    \/ CallDebug
    \/ CallWarn
    \/ CallError
    \/ CallFatal
    \/ CallPanic
    \/ CallErrorLine
    \/ CallErrorLineC
    \/ CallMsg

InitLog == InitL /\ SWIdle

SpecLog == InitLog /\ [][NextL]_vars

(***************************************************************************)
(* Properties of the stored contexts (SpecCtx)                             *)
(***************************************************************************)

AppendOps == {"Append", "MustAppend"}
DeriveOps == {"CreateFromContext", "MustCreateFromContext"}
CtxOps == {"Create"} \cup AppendOps \cup DeriveOps

\* C1: GetContexts of a logger built by Create(A) and successful Appends
\* B1..Bn returns A ++ B1 ++ ... ++ Bn, in insertion order.
C1_GetContextsInsertionOrder ==
    (ret.op = "GetContexts" /\ hist[ret.cl].parent = 0)
        => ret.result = hist[ret.cl].inserted

\* C2: after child = parent.CreateFromContext(X) (or the must-form),
\* child.GetContexts() = parent.GetContexts() ++ X.
C2_ChildIsParentThenExtra ==
    (ret.op \in DeriveOps /\ ret.err = Nil)
        => GetContexts(mem, loggers[ret.child])
             = GetContexts(mem, loggers[ret.cl]) \o ret.args

\* j and i are a derived logger and the logger it was derived from.
Related(i, j) == hist[i].parent = j \/ hist[j].parent = i

\* C3: a derivation, failed or not, leaves the receiver's contexts as they
\* were, and an Append on a parent or on its child leaves the other's
\* contexts as they were.
C3_DerivationIsolated ==
    [][/\ ret'.op \in DeriveOps
            => GetContexts(mem', loggers'[ret'.cl]) = GetContexts(mem, loggers[ret'.cl])
       /\ ret'.op \in AppendOps
            => \A j \in 1..Len(loggers) :
                  Related(ret'.cl, j)
                      => GetContexts(mem', loggers'[j]) = GetContexts(mem, loggers[j])
      ]_vars

\* A child took more pairs by a later Append while its parent holds some.
C3_Witness ==
    /\ ret.op \in AppendOps
    /\ ret.nargs = 2
    /\ ret.err = Nil
    /\ hist[ret.cl].parent # 0
    /\ loggers[hist[ret.cl].parent].keyValues.len > 0

\* C4: an odd-length argument list always fails with ErrWrongNumberOfArgs
\* and stores nothing; Append and CreateFromContext return the error, the
\* must-forms and Create panic with it.
C4_OddArgsFail ==
    [][(ret'.op \in CtxOps /\ ret'.nargs % 2 = 1)
          => /\ ret'.err = ErrWrongNumberOfArgs
             /\ ret'.outcome = IF ret'.op \in {"Append", "CreateFromContext"}
                               THEN "error" ELSE "panic"
             /\ loggers' = loggers
             /\ mem' = mem
      ]_vars

\* MustCreateFromContext on a logger with pairs was given a pair and a
\* lone key and panicked.
C4_Witness ==
    /\ ret.op = "MustCreateFromContext"
    /\ ret.nargs = 3
    /\ ret.outcome = "panic"
    /\ Len(loggers) > 0 /\ loggers[ret.cl].keyValues.len > 0

(***************************************************************************)
(* Properties of the StringWriter (SpecSW)                                 *)
(***************************************************************************)

\* C6: Bytes() is the first min(size, T) bytes of everything written since
\* the last Reset (T its length), whatever was written before the Reset.
C6_BytesIsPrefixSinceReset ==
    /\ Bytes(sb) = SubSeq(written, 1, Min(sb.size, Len(written)))
    /\ swret.op = "Bytes" => swret.bytes = SubSeq(written, 1, Min(sb.size, Len(written)))

\* Bytes were read after a Reset and a new Write, older bytes still lying
\* in the buffer behind the cursor.
C6_Witness ==
    /\ swret.op = "Bytes"
    /\ Len(swret.bytes) > 0
    /\ sb.index < sb.size
    /\ sb.buffer[sb.index + 1] # 0

\* C7: Write(p) with r free bytes returns n = min(len(p), r), returns
\* io.EOF exactly when len(p) > r, and keeps the n bytes it stored.
C7_WriteResult ==
    swret.op = "Write" =>
        LET r == sb.size - swret.old IN
        /\ swret.n = Min(Len(swret.p), r)
        /\ swret.err = EOF <=> Len(swret.p) > r
        /\ swret.err \in {EOF, Nil}
        /\ sb.index = swret.old + swret.n
        /\ SubSeq(sb.buffer, swret.old + 1, swret.old + swret.n)
             = SubSeq(swret.p, 1, swret.n)

\* A Write overflowed after storing a part of its payload.
C7_Witness ==
    /\ swret.op = "Write"
    /\ swret.err = EOF
    /\ swret.n > 0
    /\ swret.old > 0

\* C9: 0 <= index <= size always (so every store is inside the buffer and
\* Bytes is no longer than size); a Write never lowers index, and only
\* Reset brings it back to 0.
C9_IndexInRange ==
    /\ [](sb.index \in 0..sb.size /\ Len(sb.buffer) = sb.size
            /\ Len(Bytes(sb)) <= sb.size)
    /\ [][/\ swret'.op = "Write" => sb'.index >= sb.index
          /\ sb'.index < sb.index => (swret'.op = "Reset" /\ sb'.index = 0)
         ]_vars

\* A full buffer took one more Write.
C9_Witness ==
    /\ swret.op = "Write"
    /\ swret.old = sb.size
    /\ sb.size > 0
    /\ Len(swret.p) > 0

(***************************************************************************)
(* Properties of the logging calls (SpecLog)                               *)
(***************************************************************************)

Stored == Elems(mem, loggers[1].keyValues)

\* C5: an accessor whose level is below the global level returns the nil
\* event, attaches no stored attribute and leaves the writer's content as
\* it was.
C5_DisabledLevelIsNoOp ==
    [][(ret'.op \in AccessorOps /\ LevelNum(AccessorLevel(ret'.op)) < globalLevel)
          => /\ ret'.outcome = "ok"
             /\ ret'.event.nil
             /\ ret'.event.fields = <<>>
             /\ out' = out
      ]_vars

\* Debug() was called under level info on a logger that holds pairs, after
\* an event had been written out.
C5_Witness ==
    /\ ret.op = "Debug"
    /\ globalLevel = 1
    /\ ret.event.nil
    /\ Len(Stored) > 0
    /\ out # <<>>

\* The file and line ErrorLine/ErrorLineC are to report: those of the frame
\* skip levels above ErrorLineC, the sentinels when there is no such frame.
ReportedSite(r) ==
    IF ~r.direct THEN r.callers[1]
    ELSE IF r.skip = 0 THEN [file |-> "logh.go", line |-> "163"]
    ELSE IF r.skip <= Len(r.callers) THEN r.callers[r.skip]
    ELSE [file |-> "unknown", line |-> "-1"]

\* C8: with the error level enabled, ErrorLine/ErrorLineC attaches @file
\* and @line first, the caller's when the stack inspection succeeds and
\* "unknown" and -1 when it fails.
C8_FileAndLineAlwaysAttached ==
    (ret.op \in {"ErrorLine", "ErrorLineC"} /\ LevelNum("error") >= globalLevel
        /\ ret.outcome = "ok")
        => /\ ~ret.event.nil
           /\ Len(ret.event.fields) >= 2
           /\ ret.event.fields[1] =
                [setter |-> "Str", key |-> "@file", val |-> ReportedSite(ret).file]
           /\ ret.event.fields[2] =
                [setter |-> "Int", key |-> "@line", val |-> ReportedSite(ret).line]

\* The setter the kind of a value asks for.
TypedKinds == {"Int", "Int8", "Int16", "Int32", "Int64", "Uint", "Uint8",
               "Uint16", "Uint32", "Uint64", "Float32", "Float64", "Bool"}
SetterOfKind(kind) ==
    IF kind = "String" THEN "Str"
    ELSE IF kind \in TypedKinds THEN kind
    ELSE "Interface"

\* C10: an enabled accessor never aborts and returns the event with every
\* stored attribute attached once, in order, by the setter of its kind, the
\* Interface setter for nil and structured values.
C10_EveryAttributeAttached ==
    (ret.op \in AccessorOps /\ LevelNum(AccessorLevel(ret.op)) >= globalLevel)
        => /\ ret.outcome = "ok"
           /\ ~ret.event.nil
           /\ LET f == ret.event.fields
                  n == Len(Stored)
              IN  /\ Len(f) >= n
                  /\ SubSeq(f, Len(f) - n + 1, Len(f)) =
                       [j \in 1..n |->
                           [setter |-> SetterOfKind(KindOf(Stored[j].value)),
                            key |-> Stored[j].key,
                            val |-> Stored[j].value.v]]

====
